---- MODULE Spec2Model ----
(***************************************************************************)
(* Model of simulate_bb84 (src/bb84_notebook.ipynb): one trial of the BB84 *)
(* protocol, step by step.  Python lists are 0-based; the sequences here   *)
(* are 1-based, so position i of the code is index i+1 of the model.       *)
(*                                                                         *)
(* A one-qubit circuit is the sequence of its instructions ("x", "h",      *)
(* "measure").  Every state such a circuit can reach is one of |0>, |1>,   *)
(* |+>, |-> up to a global phase, written [bit, basis] with basis 0 = Z    *)
(* and basis 1 = X.  The simulator's sampling of a one-shot measurement is *)
(* the input `coin`.                                                       *)
(***************************************************************************)
EXTENDS Integers, Sequences, FiniteSets

\* largest n_bits of a trial without eavesdropping
MaxBits == 4
\* largest n_bits of a trial with eavesdropping
MaxEveBits == 2
\* n_bits ranges down to -MaxNeg
MaxNeg == 1

VARIABLES pc, n_bits, eavesdrop, alice_bits, alice_bases, circuits,
          eve_bases, intercepted_bits, bob_bases, shots, bob_results,
          sifted_key_alice, sifted_key_bob, qber, raised

vars == <<pc, n_bits, eavesdrop, alice_bits, alice_bases, circuits,
          eve_bases, intercepted_bits, bob_bases, shots, bob_results,
          sifted_key_alice, sifted_key_bob, qber, raised>>

\* random.randint(0, 1)
Bit == {0, 1}

\* RangeLen with a fault: one iteration too many
RangeLenOffByOne(n) == IF n < 0 THEN 0 ELSE n + 1

\* number of iterations of `for i in range(n)`: none when n <= 0
RangeLen(n) == IF n < 0 THEN 0 ELSE n

\* [random.randint(0, 1) for _ in range(n)]
RandomBits(n) == [1..RangeLen(n) -> Bit]

\* QuantumCircuit(1, 1): no instruction yet
QuantumCircuit == << >>

\* the qubit in |0> and the classical bit cleared
InitialState == [bit |-> 0, basis |-> 0, clbit |-> 0]

\* ApplyGate with a fault: a superposition always collapses to 0
ApplyGateBiased(st, g, coin) ==
    CASE g = "x" -> IF st.basis = 0 THEN [st EXCEPT !.bit = 1 - st.bit] ELSE st
      [] g = "h" -> [st EXCEPT !.basis = 1 - st.basis]
      [] g = "measure" ->
            IF st.basis = 0 THEN [st EXCEPT !.clbit = st.bit]
            ELSE [bit |-> 0, basis |-> 0, clbit |-> 0]

\* one instruction of the ideal simulator on a stabilizer state:
\*   x flips |0>,|1> and fixes |+>,|-> up to phase; h swaps the Z and X
\*   eigenstates; measure (in Z) is deterministic on |0>,|1> and samples
\*   `coin` on |+>,|->, collapsing the qubit
ApplyGate(st, g, coin) ==
    CASE g = "x" -> IF st.basis = 0 THEN [st EXCEPT !.bit = 1 - st.bit] ELSE st
      [] g = "h" -> [st EXCEPT !.basis = 1 - st.basis]
      [] g = "measure" ->
            IF st.basis = 0 THEN [st EXCEPT !.clbit = st.bit]
            ELSE [bit |-> coin, basis |-> 0, clbit |-> coin]

RECURSIVE RunFrom(_, _, _, _)
RunFrom(qc, k, st, coin) ==
    IF k > Len(qc) THEN st
    ELSE RunFrom(qc, k + 1, ApplyGate(st, qc[k], coin), coin)

\* the state a circuit without measurement leaves the qubit in
QState(qc) == LET st == RunFrom(qc, 1, InitialState, 0)
              IN  [bit |-> st.bit, basis |-> st.basis]

\* backend.run(qc, shots=1).result().get_counts(): the single key of the
\* counts dictionary, the classical bit as a string
GetCountsKey(qc, coin) ==
    IF RunFrom(qc, 1, InitialState, coin).clbit = 1 THEN "1" ELSE "0"

\* int(list(result.keys())[0])
IntOfKey(key) == IF key = "1" THEN 1 ELSE 0

\* PrepareCircuit with a fault: the basis change before the bit flip
PrepareCircuitHX(bit, basis) ==
    (IF basis = 1 THEN <<"h">> ELSE << >>) \o (IF bit = 1 THEN <<"x">> ELSE << >>)

\* Step 2, one position: x when the bit is 1, then h when the basis is X
PrepareCircuit(bit, basis) ==
    (QuantumCircuit \o (IF bit = 1 THEN <<"x">> ELSE << >>))
        \o (IF basis = 1 THEN <<"h">> ELSE << >>)

Step2Prepare(n, bits, bases) ==
    [i \in 1..RangeLen(n) |-> PrepareCircuit(bits[i], bases[i])]

\* EveIntercept with a fault: the new circuit never gets its h
EveInterceptNoH(qc, ebasis, ibit) ==
    QuantumCircuit \o (IF ibit = 1 THEN <<"x">> ELSE << >>)

\* EveIntercept with a fault: circuits[i] is not replaced
EveInterceptKeep(qc, ebasis, ibit) ==
    (qc \o (IF ebasis = 1 THEN <<"h">> ELSE << >>)) \o <<"measure">>

\* Step 3, one position: h and measure are appended to the sender's circuit,
\* which is never run; circuits[i] becomes new_qc, built from intercepted_bit
EveIntercept(qc, ebasis, ibit) ==
    LET old    == (qc \o (IF ebasis = 1 THEN <<"h">> ELSE << >>)) \o <<"measure">>
        new_qc == (QuantumCircuit \o (IF ibit = 1 THEN <<"x">> ELSE << >>))
                      \o (IF ebasis = 1 THEN <<"h">> ELSE << >>)
    IN  new_qc

Step3Eve(n, circs, ebases, ibits) ==
    [i \in 1..RangeLen(n) |-> EveIntercept(circs[i], ebases[i], ibits[i])]

\* Step 4, one position: the circuit as run, and the bit read from its counts
BobMeasure(qc, bbasis, coin) ==
    LET run == (qc \o (IF bbasis = 1 THEN <<"h">> ELSE << >>)) \o <<"measure">>
    IN  [circuit |-> run, measured_bit |-> IntOfKey(GetCountsKey(run, coin))]

Step4Measure(n, circs, bbases, coins) ==
    [circuits    |-> [i \in 1..RangeLen(n) |->
                          BobMeasure(circs[i], bbases[i], coins[i]).circuit],
     bob_results |-> [i \in 1..RangeLen(n) |->
                          BobMeasure(circs[i], bbases[i], coins[i]).measured_bit]]

\* the samples the simulator can draw for one shot: a free coin when the
\* measured qubit is in a superposition, nothing to draw otherwise
Samples(qc, bbasis) ==
    IF QState(qc \o (IF bbasis = 1 THEN <<"h">> ELSE << >>)).basis = 1
    THEN Bit ELSE {0}

\* SiftStep with a fault: the sender's bit is appended outside the if
SiftStepAliceAlways(acc, abit, abasis, bbasis, bres) ==
    IF abasis = bbasis
    THEN [a |-> Append(acc.a, abit), b |-> Append(acc.b, bres)]
    ELSE [a |-> Append(acc.a, abit), b |-> acc.b]

\* SiftStep with a fault: insert at the front instead of append
SiftStepPrepend(acc, abit, abasis, bbasis, bres) ==
    IF abasis = bbasis
    THEN [a |-> <<abit>> \o acc.a, b |-> <<bres>> \o acc.b]
    ELSE acc

\* Step 5, one position
SiftStep(acc, abit, abasis, bbasis, bres) ==
    IF abasis = bbasis
    THEN [a |-> Append(acc.a, abit), b |-> Append(acc.b, bres)]
    ELSE acc

RECURSIVE SiftLoop(_, _, _, _, _, _, _)
SiftLoop(i, n, abits, abases, bbases, bres, acc) ==
    IF i > RangeLen(n) THEN acc
    ELSE SiftLoop(i + 1, n, abits, abases, bbases, bres,
                  SiftStep(acc, abits[i], abases[i], bbases[i], bres[i]))

Step5Sift(n, abits, abases, bbases, bres) ==
    SiftLoop(1, n, abits, abases, bbases, bres, [a |-> << >>, b |-> << >>])

\* the float 0.0; a float quotient is kept as the fraction it rounds
Zero == [num |-> 0, den |-> 1]

\* equality of two quotients as floats
FloatEq(x, y) == x.num * y.den = y.num * x.den

\* Errors with a fault: the comparison inverted
ErrorsInverted(sa, sb) ==
    LET m == IF Len(sa) < Len(sb) THEN Len(sa) ELSE Len(sb)
    IN  Cardinality({k \in 1..m : sa[k] = sb[k]})

\* sum(a != b for a, b in zip(sa, sb)); zip stops at the shorter list
Errors(sa, sb) ==
    LET m == IF Len(sa) < Len(sb) THEN Len(sa) ELSE Len(sb)
    IN  Cardinality({k \in 1..m : sa[k] # sb[k]})

\* a / b of two ints: ZeroDivisionError when b is 0
Divide(a, b) ==
    IF b = 0 THEN [raised |-> "ZeroDivisionError", value |-> Zero]
    ELSE [raised |-> "none", value |-> [num |-> a, den |-> b]]

\* Step6Qber with a fault: the empty key is not singled out
Step6QberNoGuard(sa, sb) == Divide(Errors(sa, sb), Len(sa))

\* Step 6
Step6Qber(sa, sb) ==
    IF Len(sa) = 0 THEN [raised |-> "none", value |-> Zero]
    ELSE Divide(Errors(sa, sb), Len(sa))

-----------------------------------------------------------------------------
\* the call simulate_bb84(n_bits, eavesdrop), nothing computed yet
Init ==
    /\ pc = "start"
    /\ eavesdrop \in BOOLEAN
    /\ n_bits \in (0 - MaxNeg)..MaxBits
    /\ eavesdrop => n_bits <= MaxEveBits
    /\ alice_bits = << >> /\ alice_bases = << >> /\ circuits = << >>
    /\ eve_bases = << >> /\ intercepted_bits = << >>
    /\ bob_bases = << >> /\ shots = << >> /\ bob_results = << >>
    /\ sifted_key_alice = << >> /\ sifted_key_bob = << >>
    /\ qber = Zero /\ raised = "none"

\* Step 1: Alice generates random bits and bases
Step1 ==
    /\ pc = "start"
    /\ \E bits \in RandomBits(n_bits), bases \in RandomBits(n_bits) :
          /\ alice_bits' = bits
          /\ alice_bases' = bases
    /\ pc' = "prepare"
    /\ UNCHANGED <<n_bits, eavesdrop, circuits, eve_bases, intercepted_bits,
                   bob_bases, shots, bob_results, sifted_key_alice,
                   sifted_key_bob, qber, raised>>

\* Step 2: Alice prepares quantum states; then the test of `if eavesdrop`
Step2 ==
    /\ pc = "prepare"
    /\ circuits' = Step2Prepare(n_bits, alice_bits, alice_bases)
    /\ pc' = IF eavesdrop THEN "eve" ELSE "bob"
    /\ UNCHANGED <<n_bits, eavesdrop, alice_bits, alice_bases, eve_bases,
                   intercepted_bits, bob_bases, shots, bob_results,
                   sifted_key_alice, sifted_key_bob, qber, raised>>

\* Step 3: Eve intercepts, measures, and re-prepares
Step3 ==
    /\ pc = "eve"
    /\ \E ebases \in RandomBits(n_bits), ibits \in RandomBits(n_bits) :
          /\ eve_bases' = ebases
          /\ intercepted_bits' = ibits
          /\ circuits' = Step3Eve(n_bits, circuits, ebases, ibits)
    /\ pc' = "bob"
    /\ UNCHANGED <<n_bits, eavesdrop, alice_bits, alice_bases, bob_bases,
                   shots, bob_results, sifted_key_alice, sifted_key_bob,
                   qber, raised>>

\* Step 4: Bob chooses measurement bases and measures
Step4 ==
    /\ pc = "bob"
    /\ \E bbases \in RandomBits(n_bits), coins \in RandomBits(n_bits) :
          /\ \A i \in 1..RangeLen(n_bits) :
                 coins[i] \in Samples(circuits[i], bbases[i])
          /\ bob_bases' = bbases
          /\ shots' = coins
          /\ circuits' = Step4Measure(n_bits, circuits, bbases, coins).circuits
          /\ bob_results' =
                 Step4Measure(n_bits, circuits, bbases, coins).bob_results
    /\ pc' = "sift"
    /\ UNCHANGED <<n_bits, eavesdrop, alice_bits, alice_bases, eve_bases,
                   intercepted_bits, sifted_key_alice, sifted_key_bob,
                   qber, raised>>

\* Step 5: key sifting
Step5 ==
    /\ pc = "sift"
    /\ LET s == Step5Sift(n_bits, alice_bits, alice_bases, bob_bases, bob_results)
       IN  /\ sifted_key_alice' = s.a
           /\ sifted_key_bob' = s.b
    /\ pc' = "qber"
    /\ UNCHANGED <<n_bits, eavesdrop, alice_bits, alice_bases, circuits,
                   eve_bases, intercepted_bits, bob_bases, shots, bob_results,
                   qber, raised>>

\* Step 6: QBER calculation and return
Step6 ==
    /\ pc = "qber"
    /\ LET r == Step6Qber(sifted_key_alice, sifted_key_bob)
       IN  /\ qber' = r.value
           /\ raised' = r.raised
           /\ pc' = IF r.raised = "none" THEN "done" ELSE "failed"
    /\ UNCHANGED <<n_bits, eavesdrop, alice_bits, alice_bases, circuits,
                   eve_bases, intercepted_bits, bob_bases, shots, bob_results,
                   sifted_key_alice, sifted_key_bob>>

Next == Step1 \/ Step2 \/ Step3 \/ Step4 \/ Step5 \/ Step6

Spec == Init /\ [][Next]_vars

-----------------------------------------------------------------------------
\* positions of the trial, and those where the two bases agree
Positions == 1..RangeLen(n_bits)
Matching == {i \in Positions : alice_bases[i] = bob_bases[i]}
Measured == pc \in {"sift", "qber", "done", "failed"}
Sifted == pc \in {"qber", "done", "failed"}

\* the k-th matching position in increasing order
NthMatching(k) ==
    CHOOSE i \in Matching : Cardinality({j \in Matching : j < i}) = k - 1

\* the number of sifted positions at which the two keys differ
Mismatches ==
    Cardinality({k \in 1..Len(sifted_key_alice) :
                     sifted_key_alice[k] # sifted_key_bob[k]})

-----------------------------------------------------------------------------
\* C1: without eavesdropping Bob measures exactly Alice's bit at every
\* position where the bases agree, so the sifted keys are equal element by
\* element and the returned qber is exactly 0.0
C1_NoEveMatchedExact ==
    /\ (~eavesdrop /\ Measured) =>
           \A i \in Matching : bob_results[i] = alice_bits[i]
    /\ (~eavesdrop /\ Sifted) =>
           /\ Len(sifted_key_bob) = Len(sifted_key_alice)
           /\ \A k \in 1..Len(sifted_key_alice) :
                  sifted_key_bob[k] = sifted_key_alice[k]
    /\ (~eavesdrop /\ pc \in {"done", "failed"}) =>
           pc = "done" /\ qber.num = 0

\* a finished trial without Eve whose sifted positions show all four
\* bit/basis combinations
C1_Witness ==
    /\ ~eavesdrop /\ pc = "done"
    /\ \A b \in Bit, s \in Bit :
           \E i \in Matching : alice_bits[i] = b /\ alice_bases[i] = s

\* C2: the two sifted keys have the same length, the number of positions
\* where alice_bases[i] == bob_bases[i]
C2_SiftedLength ==
    Sifted => /\ Len(sifted_key_alice) = Len(sifted_key_bob)
              /\ Len(sifted_key_alice) = Cardinality(Matching)

\* a sifted trial with Eve where some positions match and some do not
C2_Witness ==
    /\ eavesdrop /\ pc = "done"
    /\ Matching # {} /\ Matching # Positions

\* C3: the trial always returns; qber is the number of differing sifted
\* positions over the sifted length, within [0, 1], and 0.0 for an empty key
C3_QberValue ==
    pc \in {"done", "failed"} =>
        /\ pc = "done" /\ raised = "none"
        /\ Len(sifted_key_alice) = 0 => qber = Zero
        /\ Len(sifted_key_alice) > 0 =>
               qber = [num |-> Mismatches, den |-> Len(sifted_key_alice)]
        /\ qber.den > 0 /\ 0 <= qber.num /\ qber.num <= qber.den

\* a returned qber strictly between 0 and 1
C3_Witness ==
    pc = "done" /\ 0 < qber.num /\ qber.num < qber.den

\* C4 as stated: qber == 0.0 if and only if the sifted key is empty
C4_ZeroIffEmpty ==
    pc = "done" => (FloatEq(qber, Zero) <=> Len(sifted_key_alice) = 0)

\* C4 amended: an empty sifted key always returns qber 0.0 (n_bits = 0 gives
\* empty keys and 0.0), and qber == 0.0 exactly when no sifted position
\* differs, which a non-empty key can satisfy
C4_ZeroIffNoMismatch ==
    /\ (pc \in {"done", "failed"} /\ Len(sifted_key_alice) = 0) =>
           pc = "done" /\ FloatEq(qber, Zero)
    /\ (pc \in {"done", "failed"} /\ n_bits = 0) =>
           Len(sifted_key_alice) = 0 /\ Len(sifted_key_bob) = 0
    /\ pc = "done" => (FloatEq(qber, Zero) <=> Mismatches = 0)

\* a trial of at least one qubit that ends with an empty sifted key
C4_Witness ==
    pc = "done" /\ n_bits > 0 /\ Len(sifted_key_alice) = 0

\* the outcomes (Eve's basis, Eve's resend bit, Bob's sample), equally
\* weighted, and those that leave Bob with a bit other than Alice's
EveOutcomes == Bit \X Bit \X Bit
EveErrorOutcomes(abit, abasis, bbasis) ==
    {o \in EveOutcomes :
        BobMeasure(EveIntercept(PrepareCircuit(abit, abasis), o[1], o[2]),
                   bbasis, o[3]).measured_bit # abit}

\* C5: with Eve, at a sifted position Bob's bit differs from Alice's in one
\* quarter of the equally weighted outcomes
C5_EveErrorQuarter ==
    (eavesdrop /\ pc = "done") =>
        \A i \in Matching :
            4 * Cardinality(EveErrorOutcomes(alice_bits[i], alice_bases[i],
                                             bob_bases[i]))
                = Cardinality(EveOutcomes)

\* C6: after Eve's step every circuit encodes the freshly drawn
\* intercepted_bit in Eve's basis, so Bob reads that bit whenever his basis
\* is Eve's, whatever Alice sent
C6_EveResendsFreshBit ==
    /\ (eavesdrop /\ pc = "bob") =>
           \A i \in Positions :
               QState(circuits[i]) =
                   [bit |-> intercepted_bits[i], basis |-> eve_bases[i]]
    /\ (eavesdrop /\ Measured) =>
           \A i \in Positions :
               eve_bases[i] = bob_bases[i] => bob_results[i] = intercepted_bits[i]

\* Eve, Alice and Bob share a basis and Bob's bit still differs from Alice's
C6_Witness ==
    /\ eavesdrop /\ pc = "done"
    /\ \E i \in Positions :
           /\ eve_bases[i] = alice_bases[i] /\ alice_bases[i] = bob_bases[i]
           /\ bob_results[i] # alice_bits[i]

\* C7 as stated: a trial with a zero or negative qubit count never returns
\* a result
C7_NonPositiveCountFails ==
    n_bits <= 0 => pc # "done"

\* C7 amended: a trial with a zero or negative qubit count raises nothing
\* and returns empty sifted keys and qber 0.0
C7_NonPositiveCountReturnsEmpty ==
    /\ n_bits <= 0 => raised = "none" /\ pc # "failed"
    /\ (n_bits <= 0 /\ Sifted) =>
           Len(sifted_key_alice) = 0 /\ Len(sifted_key_bob) = 0
    /\ (n_bits <= 0 /\ pc = "done") => qber = Zero

\* a returned trial of a negative qubit count
C7_Witness ==
    n_bits < 0 /\ pc = "done"

\* C8: without Eve, at every position where the bases differ the circuit
\* Bob runs yields each of the two bits for exactly one of the two equally
\* weighted samples, and Bob's result is that position's own sample
C8_MismatchedUniform ==
    (~eavesdrop /\ Measured) =>
        \A i \in Positions \ Matching :
            /\ bob_results[i] = shots[i]
            /\ \A b \in Bit :
                   Cardinality({c \in Bit :
                       IntOfKey(GetCountsKey(circuits[i], c)) = b}) = 1

\* all four bit/basis combinations measured in the opposite basis, with
\* both a result equal to Alice's bit and one different from it
C8_Witness ==
    /\ ~eavesdrop /\ pc = "done"
    /\ \A b \in Bit, s \in Bit :
           \E i \in Positions \ Matching :
               alice_bits[i] = b /\ alice_bases[i] = s
    /\ \E i \in Positions \ Matching : bob_results[i] = alice_bits[i]
    /\ \E i \in Positions \ Matching : bob_results[i] # alice_bits[i]

\* C9: the sifted keys are alice_bits and bob_results at the matching
\* positions in increasing order, the k-th entries from the same position
C9_SiftOrder ==
    Sifted =>
        /\ Len(sifted_key_alice) = Cardinality(Matching)
        /\ Len(sifted_key_bob) = Cardinality(Matching)
        /\ \A k \in 1..Cardinality(Matching) :
               /\ sifted_key_alice[k] = alice_bits[NthMatching(k)]
               /\ sifted_key_bob[k] = bob_results[NthMatching(k)]

\* the example: bits [0,1,1,0], bases [0,0,1,0], Bob's bases [0,1,1,0],
\* no Eve; both keys [0,1,0], qber 0.0
C9_Witness ==
    /\ ~eavesdrop /\ pc = "done" /\ n_bits = 4
    /\ alice_bits = <<0, 1, 1, 0>> /\ alice_bases = <<0, 0, 1, 0>>
    /\ bob_bases = <<0, 1, 1, 0>>
    /\ Matching = {1, 3, 4}
    /\ sifted_key_alice = <<0, 1, 0>> /\ sifted_key_bob = <<0, 1, 0>>
    /\ FloatEq(qber, Zero)

\* C10: with Eve, a run with any other alice_bits and alice_bases and the
\* same eve_bases, resend bits, bob_bases and samples has the same
\* bob_results as the ones Step 4 has just produced
C10_BobIndependentOfAlice ==
    (eavesdrop /\ pc = "sift") =>
        \A bits2 \in RandomBits(n_bits), bases2 \in RandomBits(n_bits) :
            \A i \in Positions :
                LET sent == Step3Eve(n_bits, Step2Prepare(n_bits, bits2, bases2),
                                     eve_bases, intercepted_bits)[i]
                IN  BobMeasure(sent, bob_bases[i], shots[i]).measured_bit
                        = bob_results[i]

\* a measured trial with Eve where Bob's result differs from Alice's bit
\* at one position and equals it at another
C10_Witness ==
    /\ eavesdrop /\ pc = "sift"
    /\ \E i \in Positions : bob_results[i] # alice_bits[i]
    /\ \E i \in Positions : bob_results[i] = alice_bits[i]
====
